---------------------------- MODULE Spec2Model ----------------------------
(***************************************************************************)
(* State-machine model of vllm/attention/backends/flashinfer.py:           *)
(* FlashInferMetadata (construction, begin_forward, prefill_metadata,      *)
(* decode_metadata) and FlashInferImpl (construction, forward).            *)
(*                                                                         *)
(* Conventions                                                             *)
(*  - An Optional[T] value is a set: {} is None, {v} is the value v.       *)
(*  - A tensor is a record [data, dev, gen]: its contents, the device it   *)
(*    lives on and its object identity (gen = 0 is the object the caller   *)
(*    passed in, gen + 1 the fresh object a copying .to() returns).        *)
(*  - The two flashinfer wrapper objects are the sessions; a session is    *)
(*    the sequence of plans it holds (<<>> is Idle).  A metadata object    *)
(*    refers to a session by a handle or holds None.                       *)
(*  - `assert` statements raise AssertionError (the interpreter's default  *)
(*    mode); tensors passed to forward are taken to be well shaped.        *)
(*  - `last` records the most recent call of the layer: the operation, its *)
(*    inputs, its outcome ("ok" or the exception raised) and the external  *)
(*    calls it issued, in order.                                           *)
(***************************************************************************)
EXTENDS Integers, Sequences, FiniteSets, TLC

VARIABLES impl, meta, prefill_session, decode_session, kv_cache, last,
          ncalls, nmetas

vars == <<impl, meta, prefill_session, decode_session, kv_cache, last,
          ncalls, nmetas>>

(* Bound of the model: the number of calls made on metadata objects and   *)
(* on the layer after its construction.                                    *)
MaxCalls == 4
(* Every metadata object is used by at least one call. *)
MaxMetas == MaxCalls \div 2

----------------------------------------------------------------------------
(* Optional values. *)
None == {}
Some(v) == {v}
IsNone(o) == o = {}
Get(o) == CHOOSE v \in o : TRUE

(* torch.Tensor.to(device): the tensor itself when it already lives on the *)
(* device, a fresh copy on the device otherwise.                           *)
To_AlwaysCopy(t, device) ==
    [data |-> t.data, dev |-> device, gen |-> t.gen + 1]

To(t, device) ==
    IF t.dev = device THEN t
    ELSE [data |-> t.data, dev |-> device, gen |-> t.gen + 1]

Tensor(data, dev) == [data |-> data, dev |-> dev, gen |-> 0]

get_supported_head_sizes_Short == {64, 128}

(* FlashInferBackend.get_supported_head_sizes *)
get_supported_head_sizes == {64, 128, 256}

(* A session (wrapper object): the plans it holds. *)
Idle == <<>>
wrapper_end_forward(session) == <<>>
wrapper_begin_forward(session, plan) == Append(session, plan)
Planned(session) == Len(session) > 0

----------------------------------------------------------------------------
(* FlashInferMetadata *)

(* The object before any construction has succeeded. *)
NoMetadata ==
    [constructed |-> FALSE,
     num_prefills |-> 0, num_prefill_tokens |-> 0, num_decode_tokens |-> 0,
     max_prefill_seq_len |-> 0, use_cuda_graph |-> TRUE,
     prefill_wrapper |-> None, decode_wrapper |-> None,
     seq_start_loc |-> None, query_start_loc |-> None,
     paged_kv_indptr |-> None, paged_kv_indices |-> None,
     paged_kv_last_page_len |-> None,
     num_qo_heads |-> None, num_kv_heads |-> None, head_dim |-> None,
     page_size |-> None, data_type |-> "None", device |-> "cuda",
     logits_soft_cap |-> None]

(* __post_init__: the only check made at construction. *)
post_init(m) ==
    IF ~IsNone(m.head_dim) /\ Get(m.head_dim) \notin get_supported_head_sizes
    THEN "ValueError"
    ELSE "ok"

(* The three PageIndex fields of a metadata object. *)
PageFields(m) ==
    <<m.paged_kv_indices, m.paged_kv_indptr, m.paged_kv_last_page_len>>

TransferPageFields_Clobber(m) ==
    [m EXCEPT
       !.paged_kv_indices = Some(To(Get(m.paged_kv_indices), m.device)),
       !.paged_kv_indptr = Some(To(Get(m.paged_kv_indptr), m.device)),
       !.paged_kv_last_page_len =
           Some(To(Get(m.paged_kv_last_page_len), m.device)),
       !.use_cuda_graph = FALSE]

(* Lines 127-130 and 142-145: each field is reassigned the result of .to(). *)
TransferPageFields(m) ==
    [m EXCEPT
       !.paged_kv_indices = Some(To(Get(m.paged_kv_indices), m.device)),
       !.paged_kv_indptr = Some(To(Get(m.paged_kv_indptr), m.device)),
       !.paged_kv_last_page_len =
           Some(To(Get(m.paged_kv_last_page_len), m.device))]

(* Arguments of prefill_wrapper.begin_forward, lines 132-136. *)
PrefillPlan(m) ==
    [query_start_loc |-> m.query_start_loc,
     paged_kv_indptr |-> m.paged_kv_indptr,
     paged_kv_indices |-> m.paged_kv_indices,
     paged_kv_last_page_len |-> m.paged_kv_last_page_len,
     num_qo_heads |-> m.num_qo_heads, num_kv_heads |-> m.num_kv_heads,
     head_dim |-> m.head_dim, page_size |-> m.page_size]

(* Arguments of decode_wrapper.begin_forward, lines 149-159. *)
DecodePlan(m) ==
    [paged_kv_indptr |-> m.paged_kv_indptr,
     paged_kv_indices |-> m.paged_kv_indices,
     paged_kv_last_page_len |-> m.paged_kv_last_page_len,
     num_qo_heads |-> m.num_qo_heads, num_kv_heads |-> m.num_kv_heads,
     head_dim |-> m.head_dim, page_size |-> m.page_size,
     pos_encoding_mode |-> "NONE", data_type |-> m.data_type]

(* One external call issued by the layer: the callee, its arguments and,  *)
(* for a call on a session, the number of plans the session holds when    *)
(* the call is made (0 for the stateless kernels).                        *)
Call(fn, args, plans) == [fn |-> fn, args |-> args, plans |-> plans]

Replan_NoEnd(session, plan) == wrapper_begin_forward(session, plan)

(* Lines 131-132 and 148-149: end the session's plan, then plan it anew. *)
Replan(session, plan) ==
    wrapper_begin_forward(wrapper_end_forward(session), plan)

(* The result of a begin_forward call: outcome, the metadata and the two   *)
(* sessions after it, the wrapper calls issued, and whether the PageIndex  *)
(* fields were assigned.                                                   *)
BeginResult(outcome, m, ps, ds, events, assigned) ==
    [outcome |-> outcome, meta |-> m, prefill_session |-> ps,
     decode_session |-> ds, events |-> events, assigned |-> assigned]

(* The .to() of the fields that are present. *)
TransferPresent(m) ==
    [m EXCEPT
       !.paged_kv_indices = {To(t, m.device) : t \in m.paged_kv_indices},
       !.paged_kv_indptr = {To(t, m.device) : t \in m.paged_kv_indptr},
       !.paged_kv_last_page_len =
           {To(t, m.device) : t \in m.paged_kv_last_page_len}]

BeginPrefill_NoAssert(m, ps, ds) ==
    IF IsNone(m.paged_kv_indices)
    THEN BeginResult("ok", m, ps, ds, <<>>, FALSE)
    ELSE IF IsNone(m.prefill_wrapper)
    THEN BeginResult("AssertionError", m, ps, ds, <<>>, FALSE)
    ELSE LET m2 == TransferPresent(m)
         IN  BeginResult("ok", m2, Replan(ps, PrefillPlan(m2)), ds,
                 <<Call("prefill_wrapper.end_forward", <<>>, Len(ps)),
                   Call("prefill_wrapper.begin_forward", PrefillPlan(m2),
                        Len(wrapper_end_forward(ps)))>>, TRUE)

(* begin_forward, prefill branch (lines 120-136). *)
BeginPrefill(m, ps, ds) ==
    IF IsNone(m.paged_kv_indices)
    THEN BeginResult("ok", m, ps, ds, <<>>, FALSE)
    ELSE IF IsNone(m.prefill_wrapper) \/ IsNone(m.paged_kv_indptr)
            \/ IsNone(m.paged_kv_last_page_len)
    THEN BeginResult("AssertionError", m, ps, ds, <<>>, FALSE)
    ELSE LET m2 == TransferPageFields(m)
         IN  BeginResult("ok", m2, Replan(ps, PrefillPlan(m2)), ds,
                 <<Call("prefill_wrapper.end_forward", <<>>, Len(ps)),
                   Call("prefill_wrapper.begin_forward", PrefillPlan(m2),
                        Len(wrapper_end_forward(ps)))>>, TRUE)

BeginDecode_NoAssert(m, ps, ds) ==
    LET transfer == ~m.use_cuda_graph
        m2 == IF transfer THEN TransferPresent(m) ELSE m
    IN  IF IsNone(m.decode_wrapper)
        THEN BeginResult("AssertionError", m2, ps, ds, <<>>, transfer)
        ELSE BeginResult("ok", m2, ps, Replan(ds, DecodePlan(m2)),
                 <<Call("decode_wrapper.end_forward", <<>>, Len(ds)),
                   Call("decode_wrapper.begin_forward", DecodePlan(m2),
                        Len(wrapper_end_forward(ds)))>>, transfer)

BeginDecode_AlwaysTransfer(m, ps, ds) ==
    LET missing == IsNone(m.paged_kv_indices) \/ IsNone(m.paged_kv_indptr)
                      \/ IsNone(m.paged_kv_last_page_len)
        m2 == IF ~missing THEN TransferPageFields(m) ELSE m
    IN  IF missing
        THEN BeginResult("AssertionError", m, ps, ds, <<>>, FALSE)
        ELSE IF IsNone(m.decode_wrapper)
        THEN BeginResult("AssertionError", m2, ps, ds, <<>>, TRUE)
        ELSE BeginResult("ok", m2, ps, Replan(ds, DecodePlan(m2)),
                 <<Call("decode_wrapper.end_forward", <<>>, Len(ds)),
                   Call("decode_wrapper.begin_forward", DecodePlan(m2),
                        Len(wrapper_end_forward(ds)))>>, TRUE)

(* begin_forward, decode branch (lines 138-159). *)
BeginDecode(m, ps, ds) ==
    LET missing == IsNone(m.paged_kv_indices) \/ IsNone(m.paged_kv_indptr)
                      \/ IsNone(m.paged_kv_last_page_len)
        transfer == ~m.use_cuda_graph
        m2 == IF transfer /\ ~missing THEN TransferPageFields(m) ELSE m
    IN  IF transfer /\ missing
        THEN BeginResult("AssertionError", m, ps, ds, <<>>, FALSE)
        ELSE IF IsNone(m.decode_wrapper)
        THEN BeginResult("AssertionError", m2, ps, ds, <<>>, transfer)
        ELSE BeginResult("ok", m2, ps, Replan(ds, DecodePlan(m2)),
                 <<Call("decode_wrapper.end_forward", <<>>, Len(ds)),
                   Call("decode_wrapper.begin_forward", DecodePlan(m2),
                        Len(wrapper_end_forward(ds)))>>, transfer)

(* FlashInferMetadata.begin_forward (lines 118-159). *)
begin_forward(m, ps, ds) ==
    IF m.num_prefill_tokens > 0
    THEN BeginPrefill(m, ps, ds)
    ELSE BeginDecode(m, ps, ds)

(* The properties return self, None, or raise: value is Some(m) or None.   *)
PropertyResult(raised, value) == [raised |-> raised, value |-> value]

prefill_metadata_ByPrefills(m) ==
    IF m.num_prefills > 0
    THEN PropertyResult(FALSE, Some(m))
    ELSE PropertyResult(FALSE, None)

(* FlashInferMetadata.prefill_metadata (lines 172-179). *)
prefill_metadata(m) ==
    IF m.num_decode_tokens = 0
    THEN IF m.num_prefills > 0
         THEN PropertyResult(FALSE, Some(m))
         ELSE PropertyResult(TRUE, None)
    ELSE PropertyResult(FALSE, None)

(* FlashInferMetadata.decode_metadata (lines 181-188). *)
decode_metadata(m) ==
    IF m.num_prefills > 0
    THEN IF m.num_decode_tokens = 0
         THEN PropertyResult(FALSE, None)
         ELSE PropertyResult(TRUE, None)
    ELSE PropertyResult(FALSE, Some(m))

(* The dataclass fields of a metadata object. *)
FieldNames(m) == DOMAIN m \ {"constructed"}

(* AttentionMetadata.asdict_zerocopy of the base class: the fields of the  *)
(* object, by name, except those named in skip_fields.                     *)
super_asdict_zerocopy(m, skip_fields) ==
    [f \in FieldNames(m) \ skip_fields |-> m[f]]

asdict_zerocopy_NoSkip(m, skip_fields) ==
    super_asdict_zerocopy(m, IF IsNone(skip_fields) THEN {}
                             ELSE Get(skip_fields))

(* FlashInferMetadata.asdict_zerocopy (lines 161-170); skip_fields is an   *)
(* Optional set of field names.                                            *)
asdict_zerocopy(m, skip_fields) ==
    LET given == IF IsNone(skip_fields) THEN {} ELSE Get(skip_fields)
    IN  super_asdict_zerocopy(m,
            given \cup {"prefill_wrapper", "decode_wrapper"})

----------------------------------------------------------------------------
(* FlashInferImpl *)

NoImpl ==
    [constructed |-> FALSE, num_heads |-> 0, head_size |-> 0, scale |-> 0,
     num_kv_heads |-> 0, alibi_slopes |-> None, sliding_window |-> <<>>,
     kv_cache_dtype |-> "None", num_queries_per_kv |-> 0]

init_outcome_NoWindowCheck(num_heads, num_kv_heads, sliding_window) ==
    IF num_heads % num_kv_heads # 0 THEN "AssertionError" ELSE "ok"

(* FlashInferImpl.__init__ (lines 193-217): the exception it raises, or    *)
(* "ok".  The sliding-window check precedes the head-count assertion.      *)
init_outcome(num_heads, num_kv_heads, sliding_window) ==
    IF ~IsNone(sliding_window) THEN "ValueError"
    ELSE IF num_heads % num_kv_heads # 0 THEN "AssertionError"
    ELSE "ok"

(* The object a successful __init__ leaves; float(scale) keeps the value   *)
(* and torch.tensor(alibi_slopes) is a new host tensor of the slopes.      *)
init_object(num_heads, head_size, scale, num_kv_heads, alibi_slopes, dtype) ==
    [constructed |-> TRUE, num_heads |-> num_heads, head_size |-> head_size,
     scale |-> scale, num_kv_heads |-> num_kv_heads,
     alibi_slopes |-> IF IsNone(alibi_slopes) THEN None
                      ELSE Some(Tensor(Get(alibi_slopes), "cpu")),
     sliding_window |-> <<-1, -1>>,
     kv_cache_dtype |-> dtype,
     num_queries_per_kv |-> num_heads \div num_kv_heads]

(* The result of a forward call: outcome and the external calls issued.    *)
ForwardResult(outcome, events) == [outcome |-> outcome, events |-> events]

ScaleCheck_Off(k_scale, v_scale) == TRUE

(* Line 230. *)
ScaleCheck(k_scale, v_scale) == k_scale = 1 /\ v_scale = 1

AttnTypeCheck_Off(attn_type) == TRUE

(* Line 232. *)
AttnTypeCheck(attn_type) == attn_type = "DECODER"

ChunkedPrefillCheck_Off(m) == TRUE

(* Lines 242-247: the two chunked-prefill assertions. *)
ChunkedPrefillCheck(m) ==
    /\ (m.num_prefill_tokens > 0 => m.num_decode_tokens = 0)
    /\ (m.num_decode_tokens > 0 => m.num_prefill_tokens = 0)

(* Lines 249-258: the key/value write into the cache, when one is attached. *)
CacheWrite(self, kv, m) ==
    IF IsNone(kv) THEN <<>>
    ELSE <<Call("reshape_and_cache_flash",
                [kv_cache |-> Get(kv),
                 kv_cache_dtype |-> self.kv_cache_dtype], 0)>>

(* The two calls of the prefill branch. *)
DenseCall(self, prefill_meta) ==
    Call("flash_attn_varlen_func",
         [cu_seqlens_q |-> prefill_meta.seq_start_loc,
          cu_seqlens_k |-> prefill_meta.seq_start_loc,
          max_seqlen_q |-> prefill_meta.max_prefill_seq_len,
          max_seqlen_k |-> prefill_meta.max_prefill_seq_len,
          softmax_scale |-> self.scale, causal |-> TRUE,
          window_size |-> self.sliding_window,
          alibi_slopes |-> self.alibi_slopes], 0)

PrefillCall(kv, m, ps) ==
    Call("prefill_wrapper.forward",
         [kv_cache |-> kv, logits_soft_cap |-> m.logits_soft_cap,
          causal |-> TRUE], Len(ps))

PrefillPath_NoElse(self, kv, prefill_meta, m, ps) ==
    LET d == IF IsNone(kv) THEN <<DenseCall(self, prefill_meta)>> ELSE <<>>
    IN  IF IsNone(prefill_meta.prefill_wrapper)
        THEN ForwardResult("AssertionError", d)
        ELSE ForwardResult("ok", d \o <<PrefillCall(kv, m, ps)>>)

PrefillPath_NoFallback(self, kv, prefill_meta, m, ps) ==
    IF IsNone(prefill_meta.prefill_wrapper)
    THEN ForwardResult("AssertionError", <<>>)
    ELSE ForwardResult("ok", <<PrefillCall(kv, m, ps)>>)

PrefillPath_WrongHandle(self, kv, prefill_meta, m, ps) ==
    IF IsNone(kv)
    THEN ForwardResult("ok", <<DenseCall(self, prefill_meta)>>)
    ELSE IF IsNone(prefill_meta.decode_wrapper)
    THEN ForwardResult("AssertionError", <<>>)
    ELSE ForwardResult("ok", <<PrefillCall(kv, m, ps)>>)

(* Lines 267-288: the branch taken when prefill_metadata is not None. *)
PrefillPath(self, kv, prefill_meta, m, ps) ==
    IF IsNone(kv)
    THEN ForwardResult("ok", <<DenseCall(self, prefill_meta)>>)
    ELSE IF IsNone(prefill_meta.prefill_wrapper)
    THEN ForwardResult("AssertionError", <<>>)
    ELSE ForwardResult("ok", <<PrefillCall(kv, m, ps)>>)

(* Lines 290-296: the branch taken when prefill_metadata is None. *)
DecodePath(self, kv, m, ds) ==
    LET dm == decode_metadata(m)
    IN  IF dm.raised \/ IsNone(dm.value)
           \/ IsNone(Get(dm.value).decode_wrapper)
        THEN ForwardResult("AssertionError", <<>>)
        ELSE ForwardResult("ok",
               <<Call("decode_wrapper.forward",
                      [kv_cache |-> kv, sm_scale |-> self.scale,
                       logits_soft_cap |-> m.logits_soft_cap], Len(ds))>>)

(* Lines 262-296: the routing. *)
Route(self, kv, m, ps, ds) ==
    LET pm == prefill_metadata(m)
    IN  IF pm.raised THEN ForwardResult("AssertionError", <<>>)
        ELSE IF ~IsNone(pm.value)
        THEN PrefillPath(self, kv, Get(pm.value), m, ps)
        ELSE DecodePath(self, kv, m, ds)

forward_WriteBeforeChecks(self, kv, m, k_scale, v_scale, attn_type, ps, ds) ==
    LET w == CacheWrite(self, kv, m)
    IN  IF ~ScaleCheck(k_scale, v_scale)
        THEN ForwardResult("AssertionError", w)
        ELSE IF ~AttnTypeCheck(attn_type)
        THEN ForwardResult("NotImplementedError", w)
        ELSE IF ~ChunkedPrefillCheck(m)
        THEN ForwardResult("AssertionError", w)
        ELSE LET r == Route(self, kv, m, ps, ds)
             IN  ForwardResult(r.outcome, w \o r.events)

forward_WriteAfter(self, kv, m, k_scale, v_scale, attn_type, ps, ds) ==
    IF ~ScaleCheck(k_scale, v_scale)
    THEN ForwardResult("AssertionError", <<>>)
    ELSE IF ~AttnTypeCheck(attn_type)
    THEN ForwardResult("NotImplementedError", <<>>)
    ELSE IF ~ChunkedPrefillCheck(m)
    THEN ForwardResult("AssertionError", <<>>)
    ELSE LET w == CacheWrite(self, kv, m)
             r == Route(self, kv, m, ps, ds)
         IN  ForwardResult(r.outcome, r.events \o w)

(* FlashInferImpl.forward (lines 219-297). *)
forward(self, kv, m, k_scale, v_scale, attn_type, ps, ds) ==
    IF ~ScaleCheck(k_scale, v_scale)
    THEN ForwardResult("AssertionError", <<>>)
    ELSE IF ~AttnTypeCheck(attn_type)
    THEN ForwardResult("NotImplementedError", <<>>)
    ELSE IF ~ChunkedPrefillCheck(m)
    THEN ForwardResult("AssertionError", <<>>)
    ELSE LET w == CacheWrite(self, kv, m)
             r == Route(self, kv, m, ps, ds)
         IN  ForwardResult(r.outcome, w \o r.events)

----------------------------------------------------------------------------
(* The state machine: the calls a model runner makes on the layer. *)

(* The record of the most recent call; prev is the operation before it.    *)
(* For begin_forward, in is the metadata as it was when the call began.    *)
LastCall(op, in, outcome, events, assigned, prev) ==
    [op |-> op, in |-> in, outcome |-> outcome, events |-> events,
     assigned |-> assigned, prev |-> prev]

(* The record of a call that returns a value. *)
LastResult(op, in, outcome, result, prev) ==
    [op |-> op, in |-> in, outcome |-> outcome, events |-> <<>>,
     assigned |-> FALSE, prev |-> prev, result |-> result]

(* The three compute paths of forward. *)
DenseFn == "flash_attn_varlen_func"
PrefillFn == "prefill_wrapper.forward"
DecodeFn == "decode_wrapper.forward"

(* Number of cache writes among the calls issued. *)
RECURSIVE CountFn(_, _)
CountFn(events, fn) ==
    IF events = <<>> THEN 0
    ELSE (IF Head(events).fn = fn THEN 1 ELSE 0) + CountFn(Tail(events), fn)

(* Inputs the actions draw from. *)
(* The code tells a zero token count from a positive one, nothing more. *)
TokenCounts == {0, 2}
Devices == {"cpu", "cuda"}
Wrappers(h) == {None, Some(h)}
OptTensor(data, dev, present) ==
    IF present THEN Some(Tensor(data, dev)) ELSE None
PageChoices ==
    {pg \in [indices : BOOLEAN, indptr : BOOLEAN, last : BOOLEAN, dev : Devices] :
        ~(pg.indices /\ pg.indptr /\ pg.last) => pg.dev = "cpu"}
HeadDims == {Some(64), Some(96)}
SoftCaps == {Some(30)}
HeadCounts == {<<4, 2>>, <<4, 3>>}
Windows == {None, Some(4096)}
Slopes == {Some(<<1, 2>>)}
ScalePairs == {<<1, 1>>, <<2, 1>>, <<1, 2>>}
AttnTypes == {"DECODER", "ENCODER_DECODER"}
Caches == {None, Some("kv_cache")}
SkipArgs ==
    {None, Some({}), Some({"seq_start_loc"}),
     Some({"paged_kv_indices", "logits_soft_cap"}),
     Some({"prefill_wrapper"})}

Init ==
    /\ impl = NoImpl
    /\ meta = NoMetadata
    /\ prefill_session = Idle
    /\ decode_session = Idle
    /\ kv_cache = [writes |-> 0]
    /\ last = LastCall("init", <<>>, "ok", <<>>, FALSE, "init")
    /\ ncalls = 0
    /\ nmetas = 0

(* FlashInferImpl(...): the attention layer is constructed once, before   *)
(* the calls that MaxCalls counts.                                         *)
NewImpl ==
    /\ ~impl.constructed
    /\ \E hc \in HeadCounts, sw \in Windows, al \in Slopes :
         LET out == init_outcome(hc[1], hc[2], sw)
         IN  /\ impl' = IF out = "ok"
                        THEN init_object(hc[1], 64, 1, hc[2], al, "auto")
                        ELSE impl
             /\ last' = LastCall("FlashInferImpl",
                                 [num_heads |-> hc[1], num_kv_heads |-> hc[2],
                                  sliding_window |-> sw, alibi_slopes |-> al],
                                 out, <<>>, FALSE, last.op)
    /\ UNCHANGED <<meta, prefill_session, decode_session, kv_cache, ncalls,
                   nmetas>>

(* FlashInferMetadata(...): the metadata object of the next step replaces  *)
(* the current one; the sessions are the caller's and outlive it.  When    *)
(* construction raises, the step has no metadata object.  The page arrays  *)
(* are those of a batch of two requests with pages [2,5] and [7]; a        *)
(* partially populated PageIndex is drawn with host arrays.  The runner    *)
(* builds the metadata of a step once the layer exists, and that of the    *)
(* next step after begin_forward (forward leaves the metadata and the      *)
(* sessions as they are).                                                  *)
NewMetadataFrom(head_dims) ==
    /\ ncalls < MaxCalls
    /\ nmetas < MaxMetas
    /\ impl.constructed
    /\ last.op \in {"FlashInferImpl", "begin_forward"}
    /\ \E np \in TokenCounts, npt \in TokenCounts, ndt \in TokenCounts,
          ucg \in BOOLEAN, pw \in Wrappers("prefill_wrapper"),
          dw \in Wrappers("decode_wrapper"), pg \in PageChoices,
          hd \in head_dims, cap \in SoftCaps :
         LET m == [constructed |-> TRUE,
                   num_prefills |-> np, num_prefill_tokens |-> npt,
                   num_decode_tokens |-> ndt,
                   max_prefill_seq_len |-> npt, use_cuda_graph |-> ucg,
                   prefill_wrapper |-> pw, decode_wrapper |-> dw,
                   seq_start_loc |-> Some(Tensor(<<0, npt>>, "cuda")),
                   query_start_loc |-> Some(Tensor(<<0, npt>>, "cuda")),
                   paged_kv_indptr |-> OptTensor(<<0, 2, 3>>, pg.dev, pg.indptr),
                   paged_kv_indices |-> OptTensor(<<2, 5, 7>>, pg.dev, pg.indices),
                   paged_kv_last_page_len |-> OptTensor(<<3, 9>>, pg.dev, pg.last),
                   num_qo_heads |-> Some(4), num_kv_heads |-> Some(2),
                   head_dim |-> hd, page_size |-> Some(16),
                   data_type |-> "float16", device |-> "cuda",
                   logits_soft_cap |-> cap]
             out == post_init(m)
         IN  /\ meta' = IF out = "ok" THEN m ELSE NoMetadata
             /\ last' = LastCall("FlashInferMetadata", m, out, <<>>, FALSE,
                                 last.op)
    /\ ncalls' = ncalls + 1
    /\ nmetas' = nmetas + 1
    /\ UNCHANGED <<impl, prefill_session, decode_session, kv_cache>>

NewMetadata == NewMetadataFrom(HeadDims)

(* attn_metadata.begin_forward() *)
BeginForward ==
    /\ ncalls < MaxCalls
    /\ meta.constructed
    /\ LET r == begin_forward(meta, prefill_session, decode_session)
       IN  /\ meta' = r.meta
           /\ prefill_session' = r.prefill_session
           /\ decode_session' = r.decode_session
           /\ last' = LastCall("begin_forward", meta, r.outcome, r.events,
                               r.assigned, last.op)
    /\ ncalls' = ncalls + 1
    /\ UNCHANGED <<impl, kv_cache, nmetas>>

(* impl.forward(query, key, value, kv_cache, attn_metadata, k_scale,       *)
(* v_scale, attn_type)                                                     *)
Forward ==
    /\ ncalls < MaxCalls
    /\ meta.constructed
    /\ impl.constructed
    /\ \E kv \in Caches, sc \in ScalePairs, attn_type \in AttnTypes :
         LET r == forward(impl, kv, meta, sc[1], sc[2], attn_type,
                          prefill_session, decode_session)
         IN  /\ last' = LastCall("forward",
                                 [kv_cache |-> kv, k_scale |-> sc[1],
                                  v_scale |-> sc[2], attn_type |-> attn_type],
                                 r.outcome, r.events, FALSE, last.op)
             /\ kv_cache' = [writes |-> kv_cache.writes
                               + CountFn(r.events, "reshape_and_cache_flash")]
    /\ ncalls' = ncalls + 1
    /\ UNCHANGED <<impl, meta, prefill_session, decode_session, nmetas>>

Next == NewImpl \/ NewMetadata \/ BeginForward \/ Forward

Spec == Init /\ [][Next]_vars

(* Construction and transmission of metadata over the whole range of       *)
(* head_dim: unset, the supported sizes and sizes around them.             *)
AllHeadDims == {None} \cup {Some(d) : d \in {32, 64, 96, 128, 256, 512}}

ConstructMetadata == NewMetadataFrom(AllHeadDims)

(* attn_metadata.asdict_zerocopy(skip_fields) *)
AsdictZerocopy ==
    /\ ncalls < MaxCalls
    /\ meta.constructed
    /\ \E sf \in SkipArgs :
         last' = LastResult("asdict_zerocopy", [skip_fields |-> sf], "ok",
                            asdict_zerocopy(meta, sf), last.op)
    /\ ncalls' = ncalls + 1
    /\ UNCHANGED <<impl, meta, prefill_session, decode_session, kv_cache,
                   nmetas>>

NextMeta == NewImpl \/ ConstructMetadata \/ AsdictZerocopy

SpecMeta == Init /\ [][NextMeta]_vars

----------------------------------------------------------------------------
(* Vocabulary of the properties. *)

IsForward == last.op = "forward"
IsBegin == last.op = "begin_forward"
CacheAttached == ~IsNone(last.in.kv_cache)
NumCompute(events) ==
    CountFn(events, DenseFn) + CountFn(events, PrefillFn)
        + CountFn(events, DecodeFn)
(* forward got past the scale, attention-type and chunked-prefill checks. *)
PassedChecks ==
    /\ last.in.k_scale = 1 /\ last.in.v_scale = 1
    /\ last.in.attn_type = "DECODER"
    /\ ChunkedPrefillCheck(meta)
AllPresent(m) ==
    /\ ~IsNone(m.paged_kv_indices) /\ ~IsNone(m.paged_kv_indptr)
    /\ ~IsNone(m.paged_kv_last_page_len)
AllAbsent(m) ==
    /\ IsNone(m.paged_kv_indices) /\ IsNone(m.paged_kv_indptr)
    /\ IsNone(m.paged_kv_last_page_len)

(* C1: a forward call on metadata with num_prefill_tokens > 0 and          *)
(* num_decode_tokens > 0 raises and calls none of the three compute paths, *)
(* with a cache and without.                                               *)
C1_MixedBatchRejected ==
    (IsForward /\ meta.num_prefill_tokens > 0 /\ meta.num_decode_tokens > 0)
        => (last.outcome # "ok" /\ NumCompute(last.events) = 0)

(* A mixed batch that passed the scale and attention-type checks, with a  *)
(* cache attached, was rejected by the chunked-prefill assertion.          *)
C1_Witness ==
    /\ IsForward /\ CacheAttached
    /\ meta.num_prefill_tokens > 0 /\ meta.num_decode_tokens > 0
    /\ last.in.k_scale = 1 /\ last.in.v_scale = 1
    /\ last.in.attn_type = "DECODER"
    /\ last.outcome = "AssertionError" /\ last.events = <<>>

(* C2: a forward call calls at most one compute path, at most once, and a  *)
(* call that returns normally has called exactly one, exactly once.        *)
C2_ExactlyOnePath ==
    IsForward =>
        /\ NumCompute(last.events) <= 1
        /\ last.outcome = "ok" => NumCompute(last.events) = 1

(* A call without a cache returned through the dense fallback alone. *)
C2_Witness ==
    /\ IsForward /\ last.outcome = "ok" /\ ~CacheAttached
    /\ CountFn(last.events, DenseFn) = 1
    /\ Len(last.events) = 1

(* C3: with a cache attached, a prefill batch never reaches                *)
(* decode_wrapper.forward and returns only through prefill_wrapper.forward; *)
(* a decode-only batch reaches neither prefill_wrapper.forward nor the     *)
(* dense fallback and returns only through decode_wrapper.forward.         *)
C3_MatchingSession ==
    (IsForward /\ CacheAttached) =>
        /\ (meta.num_prefill_tokens > 0 /\ meta.num_decode_tokens = 0) =>
               /\ CountFn(last.events, DecodeFn) = 0
               /\ last.outcome = "ok" => CountFn(last.events, PrefillFn) = 1
        /\ (meta.num_decode_tokens > 0 /\ meta.num_prefill_tokens = 0) =>
               /\ CountFn(last.events, PrefillFn) = 0
               /\ CountFn(last.events, DenseFn) = 0
               /\ last.outcome = "ok" => CountFn(last.events, DecodeFn) = 1

(* The decode-only batch of two requests, pages [2,5] and [7], computed on *)
(* the decode session after begin_forward planned it.                      *)
C3_Witness ==
    /\ IsForward /\ CacheAttached /\ last.outcome = "ok"
    /\ last.prev = "begin_forward"
    /\ meta.num_decode_tokens > 0 /\ meta.num_prefill_tokens = 0
    /\ AllPresent(meta)
    /\ Get(meta.paged_kv_indices).data = <<2, 5, 7>>
    /\ Get(meta.paged_kv_indptr).data = <<0, 2, 3>>
    /\ Get(meta.paged_kv_last_page_len).data = <<3, 9>>
    /\ CountFn(last.events, DecodeFn) = 1
    /\ Planned(decode_session)

(* C4 as stated: every forward call without a cache that returns normally  *)
(* went through the dense fallback and called no session.                  *)
C4_Original ==
    (IsForward /\ ~CacheAttached /\ last.outcome = "ok") =>
        /\ CountFn(last.events, DenseFn) = 1
        /\ CountFn(last.events, PrefillFn) = 0
        /\ CountFn(last.events, DecodeFn) = 0

(* C4, amended: without a cache, forward never calls                       *)
(* prefill_wrapper.forward and writes no cache; a batch routed as prefill  *)
(* (num_decode_tokens = 0, num_prefills > 0) goes through the dense        *)
(* fallback, causal, and calls no session; a batch with                    *)
(* num_decode_tokens > 0 that returns normally went through                *)
(* decode_wrapper.forward, called with no cache.                           *)
C4_NoCacheFallback ==
    (IsForward /\ ~CacheAttached) =>
        /\ CountFn(last.events, PrefillFn) = 0
        /\ CountFn(last.events, "reshape_and_cache_flash") = 0
        /\ (PassedChecks /\ meta.num_decode_tokens = 0
               /\ meta.num_prefills > 0) =>
               /\ last.outcome = "ok"
               /\ Len(last.events) = 1
               /\ last.events[1].fn = DenseFn
               /\ last.events[1].args.causal
        /\ (last.outcome = "ok" /\ meta.num_decode_tokens > 0) =>
               /\ Len(last.events) = 1
               /\ last.events[1].fn = DecodeFn
               /\ IsNone(last.events[1].args.kv_cache)

(* A prefill batch whose prefill_wrapper is set went through the dense     *)
(* fallback because no cache was attached.                                 *)
C4_Witness ==
    /\ IsForward /\ ~CacheAttached /\ last.outcome = "ok"
    /\ meta.num_prefill_tokens > 0 /\ meta.num_decode_tokens = 0
    /\ ~IsNone(meta.prefill_wrapper)
    /\ last.events[1].fn = DenseFn

(* C5 as stated: forward never calls a session's forward while the session *)
(* holds no plan.                                                          *)
C5_Original ==
    IsForward =>
        \A i \in 1..Len(last.events) :
            last.events[i].fn \in {PrefillFn, DecodeFn}
                => last.events[i].plans > 0

(* C5, amended: forward requires the session handle, not the Planned       *)
(* state: it never calls the forward of a wrapper its metadata does not    *)
(* hold, and a call routed to an absent wrapper raises AssertionError      *)
(* before any compute; it does not check that the session was planned.     *)
C5_HandleRequired ==
    IsForward =>
        /\ CountFn(last.events, PrefillFn) > 0 => ~IsNone(meta.prefill_wrapper)
        /\ CountFn(last.events, DecodeFn) > 0 => ~IsNone(meta.decode_wrapper)
        /\ (PassedChecks /\ CacheAttached /\ meta.num_decode_tokens = 0
               /\ meta.num_prefills > 0 /\ IsNone(meta.prefill_wrapper)) =>
               (last.outcome = "AssertionError"
                   /\ NumCompute(last.events) = 0)
        /\ (PassedChecks /\ meta.num_decode_tokens > 0
               /\ IsNone(meta.decode_wrapper)) =>
               (last.outcome = "AssertionError"
                   /\ NumCompute(last.events) = 0)

(* A prefill batch with a cache and no prefill_wrapper, while the decode   *)
(* wrapper is held, failed the assertion after the cache write.            *)
C5_Witness ==
    /\ IsForward /\ CacheAttached /\ PassedChecks
    /\ meta.num_decode_tokens = 0 /\ meta.num_prefills > 0
    /\ IsNone(meta.prefill_wrapper) /\ ~IsNone(meta.decode_wrapper)
    /\ last.outcome = "AssertionError"
    /\ NumCompute(last.events) = 0

Partial(m) == ~AllPresent(m) /\ ~AllAbsent(m)
EndFns == {"prefill_wrapper.end_forward", "decode_wrapper.end_forward"}

(* C6: a session never holds two plans: every begin_forward that plans a   *)
(* session calls end_forward on that wrapper and then begin_forward on it, *)
(* whether the session held a plan or not, so the wrapper holds no plan    *)
(* when it is planned and exactly one, the new one, afterwards.            *)
C6_OnePlan ==
    /\ Len(prefill_session) <= 1
    /\ Len(decode_session) <= 1
    /\ (IsBegin /\ last.events # <<>>) =>
          /\ Len(last.events) = 2
          /\ last.events[2].plans = 0
          /\ \/ /\ last.events[1].fn = "prefill_wrapper.end_forward"
                /\ last.events[2].fn = "prefill_wrapper.begin_forward"
                /\ prefill_session = <<last.events[2].args>>
             \/ /\ last.events[1].fn = "decode_wrapper.end_forward"
                /\ last.events[2].fn = "decode_wrapper.begin_forward"
                /\ decode_session = <<last.events[2].args>>

(* The begin_forward of a second metadata object planned the decode        *)
(* session, which held the plan of the first one.                          *)
C6_Witness ==
    /\ IsBegin /\ last.outcome = "ok" /\ nmetas = 2
    /\ last.events # <<>>
    /\ last.events[1].fn = "decode_wrapper.end_forward"
    /\ last.events[1].plans = 1
    /\ Len(decode_session) = 1

(* C7: a begin_forward that directly follows a begin_forward on the same   *)
(* metadata changes nothing: the metadata (its PageIndex fields included), *)
(* both sessions and the outcome are those the first call left.            *)
C7_IdempotentReplan ==
    [][(last.op = "begin_forward" /\ last'.op = "begin_forward"
          /\ ncalls' # ncalls)
         => /\ meta' = meta
            /\ prefill_session' = prefill_session
            /\ decode_session' = decode_session
            /\ last'.outcome = last.outcome]_vars

(* A second begin_forward in a row on a prefill batch whose arrays the     *)
(* first call copied to the device: the prefill session is planned, the    *)
(* decode session was left Idle.                                           *)
C7_Witness ==
    /\ IsBegin /\ last.prev = "begin_forward" /\ last.outcome = "ok"
    /\ last.in = meta
    /\ meta.num_prefill_tokens > 0
    /\ AllPresent(meta)
    /\ Get(meta.paged_kv_indices).gen = 1
    /\ prefill_session = <<PrefillPlan(meta)>>
    /\ decode_session = Idle

(* C8 as stated: with use_cuda_graph false and a PageIndex field missing,  *)
(* begin_forward raises and plans no session.                              *)
C8_Original ==
    (IsBegin /\ ~last.in.use_cuda_graph /\ ~AllPresent(last.in)) =>
        (last.outcome # "ok" /\ last.events = <<>>)

(* C8, amended: with use_cuda_graph false and a PageIndex field missing,   *)
(* begin_forward plans no session and leaves the metadata as it was; it    *)
(* raises AssertionError, except on a prefill batch                        *)
(* (num_prefill_tokens > 0) whose paged_kv_indices is None, where it       *)
(* returns normally having done nothing.  A decode batch always raises.    *)
C8_MissingPageIndex ==
    (IsBegin /\ ~last.in.use_cuda_graph /\ ~AllPresent(last.in)) =>
        /\ last.events = <<>>
        /\ ~last.assigned
        /\ meta = last.in
        /\ last.outcome \in {"ok", "AssertionError"}
        /\ last.outcome = "ok" <=>
              (last.in.num_prefill_tokens > 0
                  /\ IsNone(last.in.paged_kv_indices))

(* A decode batch outside graph capture, holding its decode wrapper and    *)
(* lacking a PageIndex field, was refused.                                 *)
C8_Witness ==
    /\ IsBegin /\ ~last.in.use_cuda_graph /\ ~AllPresent(last.in)
    /\ last.in.num_prefill_tokens = 0 /\ last.in.num_decode_tokens > 0
    /\ ~IsNone(last.in.decode_wrapper)
    /\ last.outcome = "AssertionError"
    /\ decode_session = Idle

(* C9 as stated: with use_cuda_graph true, begin_forward transfers none of *)
(* the PageIndex fields, in either branch: the three fields are the same   *)
(* objects after the call as before.                                       *)
C9_Original ==
    (IsBegin /\ last.in.use_cuda_graph) =>
        PageFields(meta) = PageFields(last.in)

OnDevice(m) ==
    /\ AllPresent(m)
    /\ \A i \in 1..3 : Get(PageFields(m)[i]).dev = m.device

(* C9, amended: with use_cuda_graph true the decode branch                 *)
(* (num_prefill_tokens = 0) neither transfers nor reassigns the PageIndex  *)
(* fields; the prefill branch does not read use_cuda_graph: when it plans  *)
(* it reassigns the three fields, which are the same objects afterwards    *)
(* exactly when they were already on the device.                           *)
C9_GraphCapture ==
    (IsBegin /\ last.in.use_cuda_graph) =>
        /\ last.in.num_prefill_tokens = 0 =>
              (~last.assigned /\ PageFields(meta) = PageFields(last.in))
        /\ (last.in.num_prefill_tokens > 0 /\ last.events # <<>>) =>
              /\ last.assigned
              /\ OnDevice(meta)
              /\ PageFields(meta) = PageFields(last.in) <=> OnDevice(last.in)
        /\ (last.in.num_prefill_tokens > 0 /\ last.events = <<>>) =>
              (~last.assigned /\ PageFields(meta) = PageFields(last.in))

(* A decode batch under graph capture with host arrays was planned with    *)
(* its three fields left as they were.                                     *)
C9_Witness ==
    /\ IsBegin /\ last.in.use_cuda_graph /\ last.outcome = "ok"
    /\ last.in.num_prefill_tokens = 0
    /\ AllPresent(last.in)
    /\ Get(last.in.paged_kv_indices).dev = "cpu"
    /\ PageFields(meta) = PageFields(last.in)
    /\ Planned(decode_session)

(* C10 as stated: a construction with some but not all of the three        *)
(* PageIndex fields raises, and every constructed metadata has all three   *)
(* or none.                                                                *)
C10_Original ==
    /\ (last.op = "FlashInferMetadata" /\ Partial(last.in))
          => last.outcome # "ok"
    /\ meta.constructed => (AllPresent(meta) \/ AllAbsent(meta))

(* C10, amended: construction checks head_dim only, so a partially         *)
(* populated PageIndex is constructed; begin_forward refuses it, in the    *)
(* prefill branch when paged_kv_indices is present and in the decode       *)
(* branch when use_cuda_graph is false, and every session planned by the   *)
(* prefill branch or outside graph capture is planned with the three       *)
(* fields present.                                                         *)
C10_PartialRefusedAtBegin ==
    /\ last.op = "FlashInferMetadata" =>
          (last.outcome = "ok" <=>
              (IsNone(last.in.head_dim)
                  \/ Get(last.in.head_dim) \in get_supported_head_sizes))
    /\ (IsBegin /\ Partial(last.in)
           /\ \/ last.in.num_prefill_tokens > 0
                    /\ ~IsNone(last.in.paged_kv_indices)
              \/ last.in.num_prefill_tokens = 0
                    /\ ~last.in.use_cuda_graph) =>
          (last.outcome = "AssertionError" /\ last.events = <<>>)
    /\ (IsBegin /\ last.events # <<>>
           /\ (last.in.num_prefill_tokens > 0 \/ ~last.in.use_cuda_graph)) =>
          AllPresent(meta)

(* A metadata object constructed with paged_kv_indices alone was refused   *)
(* by the prefill branch of begin_forward, its prefill wrapper held.       *)
C10_Witness ==
    /\ IsBegin /\ meta.constructed /\ last.in = meta
    /\ meta.num_prefill_tokens > 0
    /\ ~IsNone(meta.paged_kv_indices)
    /\ IsNone(meta.paged_kv_indptr) /\ IsNone(meta.paged_kv_last_page_len)
    /\ ~IsNone(meta.prefill_wrapper)
    /\ last.outcome = "AssertionError"

----------------------------------------------------------------------------
IsNewMetadata == last.op = "FlashInferMetadata"

(* C11: constructing FlashInferMetadata with a head_dim that is set and is *)
(* not 64, 128 or 256 raises ValueError whatever the other fields are and  *)
(* leaves no object; with head_dim 64, 128 or 256 construction succeeds.   *)
C11_HeadDimChecked ==
    (IsNewMetadata /\ ~IsNone(last.in.head_dim)) =>
        /\ Get(last.in.head_dim) \notin {64, 128, 256} =>
              (last.outcome = "ValueError" /\ ~meta.constructed)
        /\ Get(last.in.head_dim) \in {64, 128, 256} =>
              (last.outcome = "ok" /\ meta = last.in)

(* A construction with head_dim 96 and a partially populated PageIndex,    *)
(* for a mixed batch, raised ValueError.                                   *)
C11_Witness ==
    /\ IsNewMetadata /\ last.in.head_dim = Some(96)
    /\ Partial(last.in)
    /\ last.in.num_prefill_tokens > 0 /\ last.in.num_decode_tokens > 0
    /\ last.outcome = "ValueError"
    /\ ~meta.constructed

----------------------------------------------------------------------------
UnitScales == last.in.k_scale = 1 /\ last.in.v_scale = 1
IsNewImpl == last.op = "FlashInferImpl"

(* C12, as stated: every forward call with a non-decoder attn_type raises  *)
(* NotImplementedError, whatever k_scale and v_scale are.                  *)
C12_Original ==
    (IsForward /\ last.in.attn_type # "DECODER")
        => last.outcome = "NotImplementedError"

(* C12: a forward call with a non-decoder attn_type is always rejected     *)
(* before any cache write or kernel call, whatever the token counts and    *)
(* the cache are; it raises NotImplementedError when k_scale and v_scale   *)
(* are both 1.0, and AssertionError from the earlier scale assertion       *)
(* otherwise.                                                              *)
C12_NonDecoderRejected ==
    (IsForward /\ last.in.attn_type # "DECODER") =>
        /\ last.events = <<>>
        /\ UnitScales => last.outcome = "NotImplementedError"
        /\ ~UnitScales => last.outcome = "AssertionError"

(* An encoder-decoder call with unit scales, a cache and a mixed batch     *)
(* raised NotImplementedError.                                             *)
C12_Witness ==
    /\ IsForward /\ last.in.attn_type = "ENCODER_DECODER"
    /\ UnitScales /\ CacheAttached
    /\ meta.num_prefill_tokens > 0 /\ meta.num_decode_tokens > 0
    /\ last.outcome = "NotImplementedError"

(* C13, as stated: the outcome of a forward call on a constructed layer    *)
(* does not depend on k_scale and v_scale, it is the outcome of the same   *)
(* call with unit scales.                                                  *)
C13_Original ==
    IsForward =>
        last.outcome =
            forward(impl, last.in.kv_cache, meta, 1, 1, last.in.attn_type,
                    prefill_session, decode_session).outcome

(* C13: a non-unit k_scale or v_scale is rejected at call time: every      *)
(* forward call with k_scale or v_scale other than 1.0 raises              *)
(* AssertionError before any cache write or kernel call, on a layer whose  *)
(* construction succeeded; construction takes no key/value scale.          *)
C13_ScaleRejectedAtCall ==
    /\ (IsForward /\ ~UnitScales) =>
          /\ impl.constructed
          /\ last.outcome = "AssertionError"
          /\ last.events = <<>>
    /\ IsNewImpl =>
          DOMAIN last.in \cap {"k_scale", "v_scale"} = {}

(* A decoder call on a prefill batch that is served with unit scales was   *)
(* refused for v_scale 2.                                                  *)
C13_Witness ==
    /\ IsForward /\ last.in.k_scale = 1 /\ last.in.v_scale = 2
    /\ last.in.attn_type = "DECODER" /\ impl.constructed
    /\ last.outcome = "AssertionError"
    /\ forward(impl, last.in.kv_cache, meta, 1, 1, "DECODER",
               prefill_session, decode_session).outcome = "ok"

(* C14: constructing FlashInferImpl with a sliding_window that is not None *)
(* raises ValueError and leaves no layer; every layer that exists has      *)
(* sliding_window (-1, -1), and every call of the dense kernel passes      *)
(* window_size (-1, -1).                                                   *)
C14_WindowRejected ==
    /\ (IsNewImpl /\ ~IsNone(last.in.sliding_window)) =>
          (last.outcome = "ValueError" /\ ~impl.constructed)
    /\ impl.constructed => impl.sliding_window = <<-1, -1>>
    /\ IsForward =>
          \A i \in 1..Len(last.events) :
              last.events[i].fn = DenseFn =>
                  last.events[i].args.window_size = <<-1, -1>>

(* A construction with sliding_window 4096 and head counts that divide     *)
(* raised ValueError.                                                      *)
C14_Witness ==
    /\ IsNewImpl /\ last.in.sliding_window = Some(4096)
    /\ last.in.num_heads % last.in.num_kv_heads = 0
    /\ last.outcome = "ValueError"
    /\ ~impl.constructed

----------------------------------------------------------------------------
WriteFn == "reshape_and_cache_flash"
ComputeFns == {DenseFn, PrefillFn, DecodeFn}
IsAsdict == last.op = "asdict_zerocopy"
WrapperNames == {"prefill_wrapper", "decode_wrapper"}

(* The call c passes the value v under one of the given keyword names. *)
Passes(c, names, v) ==
    \E n \in names \cap DOMAIN c.args : c.args[n] = v

(* C15, as stated: every kernel call of a forward call, on each of the     *)
(* three paths, receives the layer's scale, the layer's alibi_slopes and   *)
(* the metadata's logits_soft_cap.                                         *)
C15_Original ==
    IsForward =>
        \A i \in 1..Len(last.events) :
            last.events[i].fn \in ComputeFns =>
                /\ Passes(last.events[i], {"softmax_scale", "sm_scale"},
                          impl.scale)
                /\ Passes(last.events[i], {"alibi_slopes"},
                          impl.alibi_slopes)
                /\ Passes(last.events[i], {"logits_soft_cap"},
                          meta.logits_soft_cap)

(* C16: the result of asdict_zerocopy has neither prefill_wrapper nor      *)
(* decode_wrapper as a key, for skip_fields None, empty, a set of other    *)
(* field names or a set naming a handle, with the handles set or not; it   *)
(* holds every other field that skip_fields does not name, by value.       *)
C16_HandlesExcluded ==
    IsAsdict =>
        LET given == IF IsNone(last.in.skip_fields) THEN {}
                     ELSE Get(last.in.skip_fields)
        IN  /\ DOMAIN last.result \cap WrapperNames = {}
            /\ DOMAIN last.result = (FieldNames(meta) \ given) \ WrapperNames
            /\ \A f \in DOMAIN last.result : last.result[f] = meta[f]

(* asdict_zerocopy with skip_fields naming two other fields, on metadata   *)
(* holding both handles, returned the remaining fields.                    *)
C16_Witness ==
    /\ IsAsdict
    /\ last.in.skip_fields = Some({"paged_kv_indices", "logits_soft_cap"})
    /\ ~IsNone(meta.prefill_wrapper) /\ ~IsNone(meta.decode_wrapper)
    /\ "seq_start_loc" \in DOMAIN last.result
    /\ "prefill_wrapper" \notin DOMAIN last.result

(* C17: a forward call with a cache attached that reaches a compute path   *)
(* issues exactly two external calls, the cache write first and the        *)
(* compute second; no forward call writes the cache more than once or      *)
(* calls anything but the cache write and the three compute paths; without *)
(* a cache forward issues no cache write.                                  *)
C17_WriteBeforeCompute ==
    IsForward =>
        /\ \A i \in 1..Len(last.events) :
              last.events[i].fn \in ComputeFns \cup {WriteFn}
        /\ CountFn(last.events, WriteFn) <= 1
        /\ ~CacheAttached => CountFn(last.events, WriteFn) = 0
        /\ (CacheAttached /\ NumCompute(last.events) > 0) =>
              /\ Len(last.events) = 2
              /\ last.events[1].fn = WriteFn
              /\ last.events[1].args.kv_cache = Get(last.in.kv_cache)
              /\ last.events[2].fn \in ComputeFns

(* A decode call with a cache wrote the cache and then ran the decode      *)
(* session's compute.                                                      *)
C17_Witness ==
    /\ IsForward /\ CacheAttached /\ last.outcome = "ok"
    /\ Len(last.events) = 2
    /\ last.events[1].fn = WriteFn
    /\ last.events[2].fn = DecodeFn

----------------------------------------------------------------------------
PageNames == {"paged_kv_indices", "paged_kv_indptr", "paged_kv_last_page_len"}

(* C18: a forward call, returning or raising, leaves every field of the    *)
(* metadata as it was; after construction a metadata field changes only in *)
(* a begin_forward call, and then only paged_kv_indices, paged_kv_indptr   *)
(* and paged_kv_last_page_len change.                                      *)
C18_MetadataFrame ==
    [][/\ (last'.op = "forward" /\ ncalls' # ncalls) => meta' = meta
       /\ meta' # meta =>
             \/ last'.op = "FlashInferMetadata"
             \/ /\ last'.op = "begin_forward" /\ ncalls' # ncalls
                /\ \A f \in DOMAIN meta \ PageNames : meta'[f] = meta[f]]_vars

(* A forward call that succeeded on metadata whose PageIndex arrays the    *)
(* begin_forward before it had replaced by device copies.                  *)
C18_Witness ==
    /\ IsForward /\ last.prev = "begin_forward" /\ last.outcome = "ok"
    /\ AllPresent(meta)
    /\ Get(meta.paged_kv_indices).gen = 1
    /\ Get(meta.paged_kv_indices).dev = meta.device
    /\ NumCompute(last.events) = 1

(* C19, as stated: when begin_forward returned normally and the forward    *)
(* call that follows it on the same metadata, with a cache, computes on a  *)
(* session, that begin_forward call planned this session.                  *)
C19_Original ==
    [][(/\ last.op = "begin_forward" /\ last.outcome = "ok"
        /\ last'.op = "forward" /\ ncalls' # ncalls
        /\ ~IsNone(last'.in.kv_cache))
         => /\ CountFn(last'.events, PrefillFn) > 0 =>
                  CountFn(last.events, "prefill_wrapper.begin_forward") > 0
            /\ CountFn(last'.events, DecodeFn) > 0 =>
                  CountFn(last.events, "decode_wrapper.begin_forward") > 0]_vars

(* The forward call that is made rejects it. *)
Rejecting(call, m) ==
    \/ call.k_scale # 1 \/ call.v_scale # 1
    \/ call.attn_type # "DECODER"
    \/ (m.num_prefill_tokens > 0 /\ m.num_decode_tokens > 0)

(* C20: a forward call with a non-unit k_scale or v_scale, a non-decoder   *)
(* attn_type or a mixed prefill+decode batch raises having issued no cache *)
(* write and no kernel or session call; the cache, both sessions and the   *)
(* metadata are after the call what they were before it.                   *)
C20_RejectionBeforeEffect ==
    [][(last'.op = "forward" /\ ncalls' # ncalls
          /\ Rejecting(last'.in, meta))
         => /\ last'.outcome # "ok"
            /\ last'.events = <<>>
            /\ kv_cache' = kv_cache
            /\ prefill_session' = prefill_session
            /\ decode_session' = decode_session
            /\ meta' = meta]_vars

(* After a forward call that wrote the cache, a second call with a cache   *)
(* and a non-unit scale was refused and the cache still has one write.     *)
C20_Witness ==
    /\ IsForward /\ last.prev = "forward" /\ CacheAttached
    /\ ~UnitScales
    /\ last.outcome = "AssertionError" /\ last.events = <<>>
    /\ kv_cache.writes = 1

=============================================================================
